---- MODULE Spec2Model ----
(***************************************************************************)
(* A model of the instrumented cache of arashrasoulzadeh/cache:            *)
(*   - statsMap (src/pkg/stats.go): the lock-protected counter map;        *)
(*   - cache / cacheDriver (src/internal/adapters/redis.go,                *)
(*     src/unnamed/part_000): Get, Set, Wrap and the statistics readers;   *)
(*   - RedisClient.RateLimiter / CountRateLimiter                          *)
(*     (src/internal/adapters/redis.go): the two rate limiters;            *)
(*   - the goroutine NewCache starts (redis.go 315-327), which prints the  *)
(*     statistics at every tick of statsTimer until it is told to stop.    *)
(* Callers are goroutines (Threads); every step of a call that touches     *)
(* shared state (the mutex, the map, a counter cell, the store, a          *)
(* channel) is one action, so that calls interleave as goroutines do.      *)
(***************************************************************************)
EXTENDS Integers, Sequences, FiniteSets, TLC

(***************************************************************************)
(* Bounds of the model.                                                    *)
(***************************************************************************)
\* Calls started in one run, over all goroutines: of the cache, of a
\* statsMap used directly, of the rate limiters.
MaxCalls == 2
MaxStatsCalls == 3
MaxRateCalls == 5
MaxCountCalls == 3
\* Calls started in one run with the reporting goroutine running, and the
\* ticks statsTimer delivers in one run.
MaxReporterCalls == 2
MaxTicks == 2
\* Calls started in one run of the rate limiters on keys that expire.
MaxWindowCalls == 2

Threads == {"t1", "t2"}
\* The goroutine NewCache starts (redis.go 315), and every goroutine.
Reporter == "reporter"
Goroutines == Threads \cup {Reporter}
Keys == {"k1", "k2"}
\* The keys the callers of the cache use.
CacheKeys == {"k1"}
\* The latencies (microseconds) a hit may measure.
Latencies == {0, 1}
\* The key RateLimiter is called on, and the key CountRateLimiter is.
RateKeys == {"k1"}
CountKeys == {"k2"}
\* The initial budgets, decrements and expirations the callers of the rate
\* limiters pass.
RateBudgets == {3, 5}
CountBudgets == {5, 10}
Decrements == {4, 5}
Expirations == {1}
\* The two statsMap fields of cache (redis.go 205-206).
Maps == {"hitStats", "missStats"}
NoThread == "none"

(***************************************************************************)
(* Go values and the store's text encoding.  A string is a sequence of     *)
(* one-character strings.  A Go interface{} value is its dynamic type      *)
(* and its text; the store keeps only the text.                            *)
(***************************************************************************)
Digits == <<"0", "1", "2", "3", "4", "5", "6", "7", "8", "9">>

RECURSIVE NatStr(_)
NatStr(n) ==
    IF n < 10 THEN <<Digits[n + 1]>>
    ELSE NatStr(n \div 10) \o <<Digits[(n % 10) + 1]>>

\* The decimal text the store keeps for an integer argument or counter.
Itoa(n) == IF n < 0 THEN <<"-">> \o NatStr(-n) ELSE NatStr(n)

DigitVal(c) == CHOOSE d \in 0..9 : Digits[d + 1] = c
IsDigit(c) == \E d \in 0..9 : Digits[d + 1] = c
AllDigits(s) == Len(s) > 0 /\ \A i \in 1..Len(s) : IsDigit(s[i])

RECURSIVE NatVal(_)
NatVal(s) ==
    IF Len(s) = 0 THEN 0
    ELSE 10 * NatVal(SubSeq(s, 1, Len(s) - 1)) + DigitVal(s[Len(s)])

\* strconv.Atoi, and the store's own parse of a counter: ok is FALSE for a
\* text that is no decimal integer.
Atoi(s) ==
    IF Len(s) > 0 /\ s[1] = "-"
    THEN IF AllDigits(Tail(s)) THEN [ok |-> TRUE, n |-> -NatVal(Tail(s))]
         ELSE [ok |-> FALSE, n |-> 0]
    ELSE IF AllDigits(s) THEN [ok |-> TRUE, n |-> NatVal(s)]
         ELSE [ok |-> FALSE, n |-> 0]

GoString(s) == [type |-> "string", text |-> s]
GoInt(n) == [type |-> "int", text |-> Itoa(n)]
NilIface == [type |-> "nil", text |-> <<>>]

\* What a caller hands to Set, or a producer returns to Wrap.
Values == {GoString(<<"a">>), GoInt(7)}

\* Errors.
NoErr == "nil"
ErrNil == "redis: nil"
ErrStore == "store unavailable"
ErrSyntax == "not an integer"
ErrNotFound == "no statistics available for the given key"

(***************************************************************************)
(* State.                                                                  *)
(***************************************************************************)
VARIABLES
    th,                \* per goroutine: position in its call, arguments, locals
    statsData,         \* statsMap.data of each map: key -> cell (0: no entry)
    cells,             \* the allocated uint64 cells, by address 1..Len(cells)
    mutex,             \* statsMap.mutex of each map
    store,             \* the key-value store
    hitLatency,        \* cache.hitLatency
    hitCount,          \* cache.hitCount
    RecordStatistics,  \* cache.RecordStatistics
    calls,             \* calls started so far
    incDone,           \* history: increments completed, per map and key
    cellsMade,         \* history: cells created, per map and key
    lastWriter,        \* history: the goroutine whose write each key holds
    offered,           \* history: per key, the values given to Set or Wrap
    getsStarted,       \* history: cache.Get calls started, per key
    getsDone,          \* history: cache.Get calls returned, per key
    keyHist,           \* history: per key, the limiter calls or increments made
    statsTimer,        \* cache.statsTimer: the ticker and its channel C
    emitted            \* history: the statistics printed, and whether one
                       \* was printed after a stop signal had been taken

vars == <<th, statsData, cells, mutex, store, hitLatency, hitCount,
          RecordStatistics, calls, incDone, cellsMade, lastWriter, offered,
          getsStarted, getsDone, keyHist, statsTimer, emitted>>

\* What the statsMap actions leave alone.
cacheVars == <<store, hitLatency, hitCount, RecordStatistics, lastWriter,
               offered, getsStarted, getsDone>>
\* What the cache and limiter actions leave alone in the statsMaps.
statsVars == <<statsData, cells, mutex, incDone, cellsMade>>
\* What every call of a caller leaves alone: the ticker and what was printed.
reporterVars == <<statsTimer, emitted>>

\* A key the store does not hold.
Absent == [present |-> FALSE, text |-> <<>>, ttl |-> FALSE]

NoCall == [op |-> "none", key |-> "k1", val |-> NilIface, err |-> NoErr]

\* A goroutine outside any call.
Idle ==
    [pc |-> "idle", op |-> "none", key |-> "k1", val |-> NilIface,
     sm |-> "hitStats", exists |-> FALSE,
     data |-> NilIface, err |-> NoErr, ret |-> NilIface, rerr |-> NoErr,
     n |-> 0, hits |-> 0, all |-> <<>>, snap |-> <<>>, produced |-> 0,
     serr |-> NoErr, timed |-> 0, counted |-> 0,
     value |-> 0, decrement |-> 0, expiration |-> 0, nth |-> 0,
     currentVal |-> 0, newValue |-> 0,
     solo |-> FALSE, h0 |-> 0, m0 |-> 0, g0 |-> 0, st0 |-> Absent,
     prev |-> NoCall]

\* Another goroutine took a step: t is no longer alone.
Disturbed(r) == [r EXCEPT !.solo = FALSE, !.prev = NoCall]

\* Goroutine t moves to r; every other goroutine has been interleaved with.
Step(t, r) ==
    th' = [u \in DOMAIN th |-> IF u = t THEN r ELSE Disturbed(th[u])]

\* The value of key k in map m as statsMap.get reads it.
Count(m, k) == IF statsData[m][k] = 0 THEN 0 ELSE cells[statsData[m][k]]

\* t may start a call: it is in no call and the run has calls left.
CanStart(t, max) == th[t].pc \in {"idle", "done"} /\ calls < max

\* The record of t's call that just ended, kept while t stays alone.
Ended(t) ==
    IF th[t].pc = "done" /\ th[t].solo
    THEN [op |-> th[t].op, key |-> th[t].key, val |-> th[t].val,
          err |-> th[t].rerr]
    ELSE NoCall

\* The locals of a fresh call of op on key k with argument v, and what the
\* call found when it started (h0, m0, g0, st0: the counters of k, the Gets
\* of k that have returned, the store's entry of k).
Fresh(t, o, k, v, first) ==
    [Idle EXCEPT !.pc = first, !.op = o, !.key = k, !.val = v,
                 !.solo = TRUE, !.h0 = Count("hitStats", k),
                 !.m0 = Count("missStats", k), !.g0 = getsDone[k],
                 !.st0 = store[k], !.prev = Ended(t)]

(***************************************************************************)
(* statsMap (src/pkg/stats.go 8-49).                                       *)
(***************************************************************************)
\* newStatsMap: an empty map, an unlocked mutex.
NewStatsData == [m \in Maps |-> [k \in Keys |-> 0]]
NewMutex == [m \in Maps |-> [w |-> NoThread, r |-> {}]]

\* sync.RWMutex: Lock waits for the writer and every reader to leave,
\* RLock waits for the writer.
NoLock(m) == TRUE
CanLock(m) == mutex[m].w = NoThread /\ mutex[m].r = {}
CanRLock(m) == mutex[m].w = NoThread

\* increment, line 20: sm.mutex.Lock().
IncLock(t) ==
    /\ th[t].pc = "inc_lock"
    /\ CanLock(th[t].sm)
    /\ mutex' = [mutex EXCEPT ![th[t].sm].w = t]
    /\ Step(t, [th[t] EXCEPT !.pc = "inc_check"])
    /\ UNCHANGED <<reporterVars, keyHist, statsData, cells, calls, incDone,
                   cellsMade, cacheVars>>

\* increment, line 23, with the lookup left out: a new cell in any case.
IncCheckMissing(t) ==
    /\ th[t].pc = "inc_check"
    /\ Step(t, [th[t] EXCEPT !.exists = FALSE, !.pc = "inc_create"])
    /\ UNCHANGED <<reporterVars, keyHist, statsData, cells, mutex, calls,
                   incDone, cellsMade, cacheVars>>

\* increment, line 23: the lookup sm.data[key].
IncCheck(t) ==
    /\ th[t].pc = "inc_check"
    /\ LET e == statsData[th[t].sm][th[t].key] # 0
       IN Step(t, [th[t] EXCEPT !.exists = e,
                                !.pc = IF e THEN "inc_add" ELSE "inc_create"])
    /\ UNCHANGED <<reporterVars, keyHist, statsData, cells, mutex, calls,
                   incDone, cellsMade, cacheVars>>

\* increment, lines 24-25: a new cell holding 0 is stored under the key.
IncCreate(t) ==
    /\ th[t].pc = "inc_create"
    /\ cells' = Append(cells, 0)
    /\ statsData' = [statsData EXCEPT ![th[t].sm][th[t].key] = Len(cells) + 1]
    /\ cellsMade' = [cellsMade EXCEPT ![th[t].sm][th[t].key] = @ + 1]
    /\ Step(t, [th[t] EXCEPT !.pc = "inc_add"])
    /\ UNCHANGED <<reporterVars, keyHist, mutex, calls, incDone, cacheVars>>

\* The pc after increment returns: into cache.Get after hit (the latency
\* update) or miss (the return), or out of a direct call.
AfterIncrement(t) ==
    IF th[t].op \in {"Get", "Wrap"}
    THEN (IF th[t].sm = "hitStats" THEN "get_latency" ELSE "get_return")
    ELSE "done"

\* increment, line 27: atomic.AddUint64(sm.data[key], 1).
IncAdd(t) ==
    /\ th[t].pc = "inc_add"
    /\ cells' = [cells EXCEPT ![statsData[th[t].sm][th[t].key]] = @ + 1]
    /\ Step(t, [th[t] EXCEPT !.pc = "inc_unlock"])
    /\ UNCHANGED <<reporterVars, keyHist, statsData, mutex, calls, incDone,
                   cellsMade, cacheVars>>

\* increment, line 21: the deferred sm.mutex.Unlock(); increment returns.
IncUnlock(t) ==
    /\ th[t].pc = "inc_unlock"
    /\ mutex' = [mutex EXCEPT ![th[t].sm].w = NoThread]
    /\ incDone' = [incDone EXCEPT ![th[t].sm][th[t].key] = @ + 1]
    /\ Step(t, [th[t] EXCEPT !.pc = AfterIncrement(t)])
    /\ UNCHANGED <<reporterVars, keyHist, statsData, cells, calls, cellsMade,
                   cacheVars>>

\* get / getAll, lines 31 and 41: sm.mutex.RLock().
ReadLock(t) ==
    /\ th[t].pc = "read_lock"
    /\ CanRLock(th[t].sm)
    /\ mutex' = [mutex EXCEPT ![th[t].sm].r = @ \cup {t}]
    /\ Step(t, [th[t] EXCEPT !.pc = "read_load"])
    /\ UNCHANGED <<reporterVars, keyHist, statsData, cells, calls, incDone,
                   cellsMade, cacheVars>>

\* getAll, lines 44-48: the copy of every entry.
Snapshot(m) ==
    [k \in {x \in Keys : statsData[m][x] # 0} |-> cells[statsData[m][k]]]

\* get, lines 34-37, and getAll, lines 44-48: the loads under the read lock.
ReadLoad(t) ==
    /\ th[t].pc = "read_load"
    /\ Step(t, [th[t] EXCEPT !.n = Count(th[t].sm, th[t].key),
                             !.all = IF th[t].op \in {"getAll", "Statistics"}
                                     THEN Snapshot(th[t].sm) ELSE <<>>,
                             !.pc = "read_unlock"])
    /\ UNCHANGED <<reporterVars, keyHist, statsData, cells, mutex, calls,
                   incDone, cellsMade, cacheVars>>

\* KeyStatistics (redis.go 260): no statistics for the key.
NoStatisticsEither(hitCount_, missCount_) == hitCount_ = 0 \/ missCount_ = 0
NoStatistics(hitCount_, missCount_) == hitCount_ = 0 /\ missCount_ = 0

\* KeyStatistics (redis.go 257-268), after c.hitStats.get(key) returned: the
\* call of c.missStats.get(key); and after that returned: the result, an
\* error or the map of both counts.
KeyStatisticsNext(r) ==
    IF r.sm = "hitStats"
    THEN [r EXCEPT !.hits = r.n, !.sm = "missStats", !.pc = "read_lock"]
    ELSE IF NoStatistics(r.hits, r.n)
         THEN [r EXCEPT !.all = <<>>, !.rerr = ErrNotFound, !.pc = "done"]
         ELSE [r EXCEPT !.all = [hits |-> r.hits, misses |-> r.n],
                        !.rerr = NoErr, !.pc = "done"]

\* Statistics (redis.go 274-288): the map of every key either snapshot
\* holds; a key has "hits" when the hits hold it, "misses" when the misses do.
StatisticsMerge(hits, misses) ==
    [k \in (DOMAIN hits) \cup (DOMAIN misses) |->
        [f \in {x \in {"hits", "misses"} :
                   \/ x = "hits" /\ k \in DOMAIN hits
                   \/ x = "misses" /\ k \in DOMAIN misses} |->
            IF f = "hits" THEN hits[k] ELSE misses[k]]]

\* Statistics (redis.go 270-289), after c.hitStats.getAll() returned: the
\* call of c.missStats.getAll(); and after that returned: the merged map,
\* handed to the caller or, in the reporting goroutine, to Println.
StatisticsNext(t, r) ==
    IF r.sm = "hitStats"
    THEN [r EXCEPT !.snap = r.all, !.sm = "missStats", !.pc = "read_lock"]
    ELSE [r EXCEPT !.all = StatisticsMerge(r.snap, r.all),
                   !.pc = IF t = Reporter THEN "rep_print" ELSE "done"]

\* get / getAll, lines 32 and 42: the deferred sm.mutex.RUnlock(); the
\* reader returns, into KeyStatistics or Statistics or out of a direct call.
ReadUnlock(t) ==
    /\ th[t].pc = "read_unlock"
    /\ mutex' = [mutex EXCEPT ![th[t].sm].r = @ \ {t}]
    /\ Step(t, IF th[t].op = "KeyStatistics" THEN KeyStatisticsNext(th[t])
               ELSE IF th[t].op = "Statistics" THEN StatisticsNext(t, th[t])
               ELSE [th[t] EXCEPT !.pc = "done"])
    /\ UNCHANGED <<reporterVars, keyHist, statsData, cells, calls, incDone,
                   cellsMade, cacheVars>>

\* The increments of key k in map m that have started and not returned.
IncInFlight(m, k) ==
    {t \in Threads : /\ th[t].op = "increment"
                     /\ th[t].pc \notin {"idle", "done"}
                     /\ th[t].sm = m /\ th[t].key = k}

\* A goroutine calls increment(k), get(k) or getAll() of map m.
CallStats(t) ==
    /\ CanStart(t, MaxStatsCalls)
    /\ \E m \in Maps, k \in Keys, o \in {"increment", "get", "getAll"} :
         /\ Step(t, [Fresh(t, o, k, NilIface,
                           IF o = "increment" THEN "inc_lock" ELSE "read_lock")
                     EXCEPT !.sm = m])
         /\ keyHist' = IF o = "increment"
                       THEN [keyHist EXCEPT
                               ![k].calls = @ + 1,
                               ![k].sequential = @ /\ IncInFlight(m, k) = {}]
                       ELSE keyHist
    /\ calls' = calls + 1
    /\ UNCHANGED <<reporterVars, statsData, cells, mutex, incDone, cellsMade,
                   cacheVars>>

(***************************************************************************)
(* The store as the cache uses it (RedisClient.Get / Set, redis.go 58-75)  *)
(* and the driver in front of it (cacheDriver, part_000 20-26).            *)
(***************************************************************************)
\* The expiration cacheDriver.Set passes: the store keeps the key's TTL.
KeepTTL == -1

\* RedisClient.Get: the text of the key, or the store's "nil" error.
RedisGet(e) ==
    IF e.present THEN [text |-> e.text, err |-> NoErr]
    ELSE [text |-> <<>>, err |-> ErrNil]

\* Any store call when the store cannot be reached.
Unreachable == [text |-> <<>>, err |-> ErrStore]

\* RedisClient.Set written as an append: the new text after the old one.
RedisAppend(e, v, expiration) ==
    [present |-> TRUE, text |-> e.text \o v.text, ttl |-> e.ttl]

\* RedisClient.Set: the key holds the text of the value; a positive
\* expiration gives it a TTL, KeepTTL keeps the one it has, and any other
\* expiration leaves it without one.
RedisSet(e, v, expiration) ==
    [present |-> TRUE, text |-> v.text,
     ttl |-> IF expiration > 0 THEN TRUE
             ELSE IF expiration = KeepTTL THEN e.present /\ e.ttl
             ELSE FALSE]

\* cacheDriver.Get: the (string, error) of Server.Get returned as
\* (interface{}, error); the interface holds the string, whatever it is.
cacheDriverGet(res) == [data |-> GoString(res.text), err |-> res.err]

\* cacheDriver.Set: Server.Set with expiration -1.
cacheDriverSet(e, v) == RedisSet(e, v, KeepTTL)

(***************************************************************************)
(* cache (redis.go 224-268; hit and miss: stats.go 51-61).                 *)
(***************************************************************************)
\* cache.hit without the test of RecordStatistics.
hitAlways(r) == [r EXCEPT !.sm = "hitStats", !.pc = "inc_lock"]
\* cache.hit recording nothing.
hitNever(r) == [r EXCEPT !.pc = "get_latency"]
\* cache.hit: the call of hitStats.increment when statistics are recorded;
\* cache.Get goes on with the latency either way.
hit(r) ==
    IF RecordStatistics THEN [r EXCEPT !.sm = "hitStats", !.pc = "inc_lock"]
    ELSE [r EXCEPT !.pc = "get_latency"]

\* cache.miss: the call of missStats.increment when statistics are recorded;
\* cache.Get then returns.
miss(r) ==
    IF RecordStatistics THEN [r EXCEPT !.sm = "missStats", !.pc = "inc_lock"]
    ELSE [r EXCEPT !.pc = "get_return"]

\* cache.Get, line 239: the test that makes a Get a miss.
IsMiss(data, err) == data = NilIface /\ err # NoErr

\* cache.Get, lines 236-243: the store is asked, and the result is counted
\* as a miss or as a hit.
GetStore(t) ==
    /\ th[t].pc = "get_store"
    /\ \E up \in BOOLEAN :
         LET res == cacheDriverGet(IF up THEN RedisGet(store[th[t].key])
                                   ELSE Unreachable)
             r == [th[t] EXCEPT !.data = res.data, !.err = res.err]
         IN Step(t, IF IsMiss(res.data, res.err) THEN miss(r) ELSE hit(r))
    /\ UNCHANGED <<reporterVars, keyHist, calls, statsVars, cacheVars>>

\* cache.Get, lines 245-246: the latency of the hit is added to hitLatency.
GetLatency(t) ==
    /\ th[t].pc = "get_latency"
    /\ \E latency \in Latencies : hitLatency' = hitLatency + latency
    /\ Step(t, [th[t] EXCEPT !.timed = @ + 1, !.pc = "get_count"])
    /\ UNCHANGED <<reporterVars, keyHist, calls, statsVars, store, hitCount,
                   RecordStatistics, lastWriter, offered, getsStarted,
                   getsDone>>

\* cache.Get, line 247: atomic.AddUint64(&c.hitCount, 1).
GetCount(t) ==
    /\ th[t].pc = "get_count"
    /\ hitCount' = hitCount + 1
    /\ Step(t, [th[t] EXCEPT !.counted = @ + 1, !.pc = "get_return"])
    /\ UNCHANGED <<reporterVars, keyHist, calls, statsVars, store, hitLatency,
                   RecordStatistics, lastWriter, offered, getsStarted,
                   getsDone>>

\* cache.Get, line 250: return data, err; to the caller or into Wrap.
GetReturn(t) ==
    /\ th[t].pc = "get_return"
    /\ getsDone' = [getsDone EXCEPT ![th[t].key] = @ + 1]
    /\ Step(t, IF th[t].op = "Wrap" THEN [th[t] EXCEPT !.pc = "wrap_check"]
               ELSE [th[t] EXCEPT !.ret = th[t].data, !.rerr = th[t].err,
                                  !.pc = "done"])
    /\ UNCHANGED <<reporterVars, keyHist, calls, statsVars, store, hitLatency,
                   hitCount, RecordStatistics, lastWriter, offered,
                   getsStarted>>

\* Wrap, line 225, with the test of the error left out.
WrapFoundAnyway(cachedValue, err) == cachedValue # NilIface
\* Wrap, line 225: the cached value is used.
WrapFound(cachedValue, err) == err = NoErr /\ cachedValue # NilIface

\* Wrap, lines 225-230: the cached value is returned, or the producer is
\* called (th[t].val is what it returns).
WrapCheck(t) ==
    /\ th[t].pc = "wrap_check"
    /\ Step(t, IF WrapFound(th[t].data, th[t].err)
               THEN [th[t] EXCEPT !.ret = th[t].data, !.pc = "done"]
               ELSE [th[t] EXCEPT !.ret = th[t].val, !.produced = @ + 1,
                                  !.pc = "wrap_set"])
    /\ UNCHANGED <<reporterVars, keyHist, calls, statsVars, cacheVars>>

\* Wrap, lines 231-232: _ = c.Set(ctx, key, result); return result.
WrapSet(t) ==
    /\ th[t].pc = "wrap_set"
    /\ \E up \in BOOLEAN :
         /\ store' = IF up
                     THEN [store EXCEPT ![th[t].key] =
                               cacheDriverSet(store[th[t].key], th[t].ret)]
                     ELSE store
         /\ lastWriter' = IF up THEN [lastWriter EXCEPT ![th[t].key] = t]
                          ELSE lastWriter
         /\ Step(t, [th[t] EXCEPT !.serr = IF up THEN NoErr ELSE ErrStore,
                                  !.pc = "done"])
    /\ UNCHANGED <<reporterVars, keyHist, calls, statsVars, hitLatency,
                   hitCount, RecordStatistics, offered, getsStarted,
                   getsDone>>

\* cache.Set, lines 253-255: return c.Cache.Set(ctx, key, value).
SetStore(t) ==
    /\ th[t].pc = "set_store"
    /\ \E up \in BOOLEAN :
         /\ store' = IF up
                     THEN [store EXCEPT ![th[t].key] =
                               cacheDriverSet(store[th[t].key], th[t].val)]
                     ELSE store
         /\ lastWriter' = IF up THEN [lastWriter EXCEPT ![th[t].key] = t]
                          ELSE lastWriter
         /\ Step(t, [th[t] EXCEPT !.serr = IF up THEN NoErr ELSE ErrStore,
                                  !.rerr = IF up THEN NoErr ELSE ErrStore,
                                  !.pc = "done"])
    /\ UNCHANGED <<reporterVars, keyHist, calls, statsVars, hitLatency,
                   hitCount, RecordStatistics, offered, getsStarted,
                   getsDone>>

\* A goroutine calls cache.Get(key).
CallGet(t) ==
    /\ CanStart(t, MaxCalls)
    /\ \E k \in CacheKeys :
         /\ Step(t, Fresh(t, "Get", k, NilIface, "get_store"))
         /\ getsStarted' = [getsStarted EXCEPT ![k] = @ + 1]
    /\ calls' = calls + 1
    /\ UNCHANGED <<reporterVars, keyHist, statsVars, store, hitLatency,
                   hitCount, RecordStatistics, lastWriter, offered, getsDone>>

\* A goroutine calls cache.Set(key, value).
CallSet(t) ==
    /\ CanStart(t, MaxCalls)
    /\ \E k \in CacheKeys, v \in Values :
         /\ Step(t, Fresh(t, "Set", k, v, "set_store"))
         /\ offered' = [offered EXCEPT ![k] = @ \cup {v}]
    /\ calls' = calls + 1
    /\ UNCHANGED <<reporterVars, keyHist, statsVars, store, hitLatency,
                   hitCount, RecordStatistics, lastWriter, getsStarted,
                   getsDone>>

\* A goroutine calls cache.Wrap(key, value) with a producer returning v;
\* Wrap starts with c.Get(ctx, key).
CallWrap(t) ==
    /\ CanStart(t, MaxCalls)
    /\ \E k \in CacheKeys, v \in Values :
         /\ Step(t, Fresh(t, "Wrap", k, v, "get_store"))
         /\ offered' = [offered EXCEPT ![k] = @ \cup {v}]
         /\ getsStarted' = [getsStarted EXCEPT ![k] = @ + 1]
    /\ calls' = calls + 1
    /\ UNCHANGED <<reporterVars, keyHist, statsVars, store, hitLatency,
                   hitCount, RecordStatistics, lastWriter, getsDone>>

\* A goroutine calls cache.KeyStatistics(key); it starts with
\* c.hitStats.get(key).
CallKeyStatistics(t) ==
    /\ CanStart(t, MaxCalls)
    /\ \E k \in CacheKeys :
         Step(t, Fresh(t, "KeyStatistics", k, NilIface, "read_lock"))
    /\ calls' = calls + 1
    /\ UNCHANGED <<reporterVars, keyHist, statsVars, cacheVars>>

(***************************************************************************)
(* The reporting goroutine of NewCache (redis.go 315-327): at every tick   *)
(* of statsTimer it prints Statistics() and AverageHitLatency(); when it   *)
(* receives from statsTimerStop it stops the ticker and returns.           *)
(***************************************************************************)
\* time.NewTicker (redis.go 309): the runtime delivers a tick into the
\* channel C, which holds one tick; a tick that finds C full is dropped.
\* No tick is delivered once the ticker is stopped.
Tick ==
    /\ ~statsTimer.stopped
    /\ statsTimer.ticks < MaxTicks
    /\ statsTimer' = [statsTimer EXCEPT !.c = TRUE, !.ticks = @ + 1]
    /\ th' = [u \in DOMAIN th |-> Disturbed(th[u])]
    /\ UNCHANGED <<emitted, keyHist, calls, statsVars, cacheVars>>

\* The select with case <-c.statsTimer.C ready (line 318): the tick is
\* taken and line 319 starts with c.Statistics, that is c.hitStats.getAll().
ReporterTick ==
    /\ th[Reporter].pc = "rep_select"
    /\ statsTimer.c
    /\ statsTimer' = [statsTimer EXCEPT !.c = FALSE]
    /\ Step(Reporter, [th[Reporter] EXCEPT !.op = "Statistics",
                                           !.sm = "hitStats",
                                           !.pc = "read_lock"])
    /\ UNCHANGED <<emitted, keyHist, calls, statsVars, cacheVars>>

\* Line 319: Println prints the statistics; line 320 then starts
\* c.AverageHitLatency.
ReporterPrint ==
    /\ th[Reporter].pc = "rep_print"
    /\ emitted' = [emitted EXCEPT !.n = @ + 1, !.last = th[Reporter].all,
                                  !.late = @ \/ emitted.stops > 0]
    /\ Step(Reporter, [th[Reporter] EXCEPT !.op = "AverageHitLatency",
                                           !.pc = "avg_count"])
    /\ UNCHANGED <<statsTimer, keyHist, calls, statsVars, cacheVars>>

\* AverageHitLatency, lines 293-296: hitCount is loaded; 0.0 is returned
\* when it is 0.  The float64 result is kept as the pair it is the
\* quotient of.
AverageLoadCount(t) ==
    /\ th[t].pc = "avg_count"
    /\ Step(t, IF hitCount = 0
               THEN [th[t] EXCEPT !.n = 0, !.hits = 0,
                                  !.pc = IF t = Reporter THEN "rep_select"
                                         ELSE "done"]
               ELSE [th[t] EXCEPT !.n = hitCount, !.pc = "avg_total"])
    /\ UNCHANGED <<reporterVars, keyHist, calls, statsVars, cacheVars>>

\* AverageHitLatency, lines 297-298: hitLatency is loaded and the quotient
\* returned; in the reporting goroutine Printf prints it and the loop goes
\* back to the select.
AverageLoadTotal(t) ==
    /\ th[t].pc = "avg_total"
    /\ Step(t, [th[t] EXCEPT !.hits = hitLatency,
                             !.pc = IF t = Reporter THEN "rep_select"
                                    ELSE "done"])
    /\ UNCHANGED <<reporterVars, keyHist, calls, statsVars, cacheVars>>

\* A goroutine signals stop: it sends on statsTimerStop (redis.go 210,
\* 310), a channel without buffer, and waits there for a receiver.
CallStop(t) ==
    /\ CanStart(t, MaxReporterCalls)
    /\ Step(t, Fresh(t, "Stop", "k1", NilIface, "stop_send"))
    /\ calls' = calls + 1
    /\ UNCHANGED <<reporterVars, keyHist, statsVars, cacheVars>>

\* The select with case <-c.statsTimerStop ready (line 321): a sender is
\* waiting; the value passes, the sender goes on (its stop is complete).
ReporterStop ==
    /\ th[Reporter].pc = "rep_select"
    /\ \E s \in Threads :
         /\ th[s].pc = "stop_send"
         /\ th' = [u \in DOMAIN th |->
                     IF u = Reporter THEN [th[u] EXCEPT !.pc = "rep_stop"]
                     ELSE IF u = s THEN [th[u] EXCEPT !.pc = "done"]
                     ELSE Disturbed(th[u])]
    /\ emitted' = [emitted EXCEPT !.stops = @ + 1]
    /\ UNCHANGED <<statsTimer, keyHist, calls, statsVars, cacheVars>>

\* Lines 322-324: "Ticker stopped" is printed, c.statsTimer.Stop(), return.
ReporterReturn ==
    /\ th[Reporter].pc = "rep_stop"
    /\ statsTimer' = [statsTimer EXCEPT !.stopped = TRUE]
    /\ Step(Reporter, [th[Reporter] EXCEPT !.pc = "rep_returned"])
    /\ UNCHANGED <<emitted, keyHist, calls, statsVars, cacheVars>>

\* A goroutine calls cache.Get(key) while the reporting goroutine runs.
ReporterGet(t) == calls < MaxReporterCalls /\ CallGet(t)

(***************************************************************************)
(* The store as the rate limiters use it (RedisClient.SetNX, Decr, DecrBy, *)
(* Get, redis.go 54-100): each command is atomic at the store.             *)
(***************************************************************************)
\* RedisClient.SetNX written as a Set: the value is stored in any case.
RedisSetAlways(e, value, expiration) ==
    [e |-> [present |-> TRUE, text |-> Itoa(value), ttl |-> expiration > 0],
     set |-> TRUE]

\* RedisClient.SetNX with the expiration dropped: the key never expires.
RedisSetNXForever(e, value, expiration) ==
    IF e.present THEN [e |-> e, set |-> FALSE]
    ELSE [e |-> [present |-> TRUE, text |-> Itoa(value), ttl |-> FALSE],
          set |-> TRUE]

\* RedisClient.SetNX: an absent key gets the text of the value, with a TTL
\* when the expiration is positive; a present key is left as it is.
RedisSetNX(e, value, expiration) ==
    IF e.present THEN [e |-> e, set |-> FALSE]
    ELSE [e |-> [present |-> TRUE, text |-> Itoa(value),
                 ttl |-> expiration > 0],
          set |-> TRUE]

\* RedisClient.DecrBy stopping at zero.
RedisDecrByToZero(e, decrement) ==
    LET cur == IF e.present THEN Atoi(e.text) ELSE [ok |-> TRUE, n |-> 0]
        new == IF cur.n - decrement < 0 THEN 0 ELSE cur.n - decrement
    IN IF cur.ok
       THEN [e |-> [present |-> TRUE, text |-> Itoa(new),
                    ttl |-> e.present /\ e.ttl],
             n |-> new, err |-> NoErr]
       ELSE [e |-> e, n |-> 0, err |-> ErrSyntax]

\* RedisClient.DecrBy: the counter of the key, 0 for an absent key, goes
\* down by decrement and keeps its TTL; a text that is no integer is an
\* error.
RedisDecrBy(e, decrement) ==
    LET cur == IF e.present THEN Atoi(e.text) ELSE [ok |-> TRUE, n |-> 0]
    IN IF cur.ok
       THEN [e |-> [present |-> TRUE, text |-> Itoa(cur.n - decrement),
                    ttl |-> e.present /\ e.ttl],
             n |-> cur.n - decrement, err |-> NoErr]
       ELSE [e |-> e, n |-> 0, err |-> ErrSyntax]

\* RedisClient.Decr stopping at zero.
RedisDecrToZero(e) == RedisDecrByToZero(e, 1)
\* RedisClient.Incr (redis.go 49-51) called where Decr is meant.
RedisIncr(e) == RedisDecrBy(e, -1)
\* RedisClient.Decr.
RedisDecr(e) == RedisDecrBy(e, 1)

\* Client.Get(ctx, key).Int64(), redis.go 121: the integer the key holds.
RedisGetInt64(e) ==
    LET res == RedisGet(e)
    IN IF res.err # NoErr THEN [n |-> 0, err |-> res.err]
       ELSE IF Atoi(res.text).ok THEN [n |-> Atoi(res.text).n, err |-> NoErr]
       ELSE [n |-> 0, err |-> ErrSyntax]

(***************************************************************************)
(* RateLimiter (redis.go 108-122) and CountRateLimiter (redis.go 125-156). *)
(***************************************************************************)
\* The limiter calls of key k that have started and not returned.
LimiterInFlight(k) ==
    {t \in Threads : /\ th[t].op \in {"RateLimiter", "CountRateLimiter"}
                     /\ th[t].pc \notin {"idle", "done"}
                     /\ th[t].key = k}

\* A limiter call returns (n, err); a failed store call is remembered, and
\* so is a call that tells its caller there was budget left (n >= 0).
LimiterReturn(t, n, err) ==
    /\ Step(t, [th[t] EXCEPT !.n = n, !.rerr = err, !.pc = "done"])
    /\ keyHist' = [keyHist EXCEPT
                     ![th[t].key].failed = @ \/ err # NoErr,
                     ![th[t].key].admitted =
                         IF err = NoErr /\ n >= 0 THEN @ + 1 ELSE @]

\* A goroutine calls RateLimiter(key, value, expiration).
CallRateLimiter(t) ==
    /\ CanStart(t, MaxRateCalls)
    /\ \E k \in RateKeys, value \in RateBudgets, expiration \in Expirations :
         /\ Step(t, [Fresh(t, "RateLimiter", k, NilIface, "rl_setnx")
                     EXCEPT !.value = value, !.expiration = expiration,
                            !.nth = keyHist[k].calls + 1])
         /\ keyHist' = [keyHist EXCEPT ![k].calls = @ + 1,
                               ![k].sequential = @ /\ LimiterInFlight(k) = {}]
    /\ calls' = calls + 1
    /\ UNCHANGED <<reporterVars, statsVars, cacheVars>>

\* RateLimiter, lines 109-118: the pipeline is sent, or the store cannot be
\* reached and the call returns the error; the store then runs the first
\* command of the pipeline, SetNX(key, value, expiration).
RateLimiterSetNX(t) ==
    /\ th[t].pc = "rl_setnx"
    /\ \E up \in BOOLEAN :
         IF up
         THEN LET res == RedisSetNX(store[th[t].key], th[t].value,
                                    th[t].expiration)
              IN /\ store' = [store EXCEPT ![th[t].key] = res.e]
                 /\ keyHist' = [keyHist EXCEPT
                                  ![th[t].key].made =
                                      IF res.set THEN th[t].value ELSE @,
                                  ![th[t].key].sent = @ + 1]
                 /\ Step(t, [th[t] EXCEPT !.pc = "rl_decr"])
         ELSE /\ LimiterReturn(t, 0, ErrStore)
              /\ UNCHANGED store
    /\ UNCHANGED <<reporterVars, calls, statsVars, hitLatency, hitCount,
                   RecordStatistics, lastWriter, offered, getsStarted,
                   getsDone>>

\* RateLimiter, line 113: the store runs the second command of the
\* pipeline, Decr(key); an error of it ends the call.  The value Decr
\* leaves, which the code drops, is remembered in newValue.
RateLimiterDecr(t) ==
    /\ th[t].pc = "rl_decr"
    /\ LET res == RedisDecr(store[th[t].key])
       IN /\ store' = [store EXCEPT ![th[t].key] = res.e]
          /\ IF res.err = NoErr
             THEN /\ Step(t, [th[t] EXCEPT !.newValue = res.n,
                                           !.pc = "rl_get"])
                  /\ UNCHANGED keyHist
             ELSE LimiterReturn(t, 0, res.err)
    /\ UNCHANGED <<reporterVars, calls, statsVars, hitLatency, hitCount,
                   RecordStatistics, lastWriter, offered, getsStarted,
                   getsDone>>

\* RateLimiter, line 121: return r.Client.Get(ctx, key).Int64().
RateLimiterGet(t) ==
    /\ th[t].pc = "rl_get"
    /\ \E up \in BOOLEAN :
         LET res == IF up THEN RedisGetInt64(store[th[t].key])
                    ELSE [n |-> 0, err |-> ErrStore]
         IN LimiterReturn(t, res.n, res.err)
    /\ UNCHANGED <<reporterVars, calls, statsVars, cacheVars>>

\* A goroutine calls CountRateLimiter(key, value, decrement, expiration).
CallCountRateLimiter(t) ==
    /\ CanStart(t, MaxCountCalls)
    /\ \E k \in CountKeys, value \in CountBudgets, decrement \in Decrements,
          expiration \in Expirations :
         /\ Step(t, [Fresh(t, "CountRateLimiter", k, NilIface, "crl_setnx")
                     EXCEPT !.value = value, !.decrement = decrement,
                            !.expiration = expiration,
                            !.nth = keyHist[k].calls + 1])
         /\ keyHist' = [keyHist EXCEPT ![k].calls = @ + 1,
                               ![k].sequential = @ /\ LimiterInFlight(k) = {}]
    /\ calls' = calls + 1
    /\ UNCHANGED <<reporterVars, statsVars, cacheVars>>

\* CountRateLimiter, lines 127-130: SetNX(key, value, expiration).
CountRateLimiterSetNX(t) ==
    /\ th[t].pc = "crl_setnx"
    /\ \E up \in BOOLEAN :
         IF up
         THEN LET res == RedisSetNX(store[th[t].key], th[t].value,
                                    th[t].expiration)
              IN /\ store' = [store EXCEPT ![th[t].key] = res.e]
                 /\ keyHist' = [keyHist EXCEPT ![th[t].key].made =
                                IF res.set THEN th[t].value ELSE @]
                 /\ Step(t, [th[t] EXCEPT !.pc = "crl_get"])
         ELSE /\ LimiterReturn(t, 0, ErrStore)
              /\ UNCHANGED store
    /\ UNCHANGED <<reporterVars, calls, statsVars, hitLatency, hitCount,
                   RecordStatistics, lastWriter, offered, getsStarted,
                   getsDone>>

\* CountRateLimiter, line 145, with the budget spent counted as over it.
OverBudgetOrSpent(newValue) == newValue <= 0
\* CountRateLimiter, line 145: the decrement would go below zero.
OverBudget(newValue) == newValue < 0

\* CountRateLimiter, lines 133-147: the current value is read and parsed,
\* the new value computed; the call returns an error, or the new value when
\* that is below zero, and goes on to the decrement otherwise.
CountRateLimiterGet(t) ==
    /\ th[t].pc = "crl_get"
    /\ \E up \in BOOLEAN :
         LET res == IF up THEN RedisGet(store[th[t].key]) ELSE Unreachable
             currentVal == Atoi(res.text)
             newValue == currentVal.n - th[t].decrement
         IN IF res.err # NoErr THEN LimiterReturn(t, 0, res.err)
            ELSE IF ~currentVal.ok THEN LimiterReturn(t, 0, ErrSyntax)
            ELSE IF OverBudget(newValue)
                 THEN LimiterReturn(t, newValue, NoErr)
                 ELSE /\ Step(t, [th[t] EXCEPT !.currentVal = currentVal.n,
                                              !.newValue = newValue,
                                              !.pc = "crl_decrby"])
                      /\ UNCHANGED keyHist
    /\ UNCHANGED <<reporterVars, calls, statsVars, cacheVars>>

\* CountRateLimiter, lines 150-155: DecrBy(key, decrement), and the new
\* value computed before it is returned.
CountRateLimiterDecrBy(t) ==
    /\ th[t].pc = "crl_decrby"
    /\ \E up \in BOOLEAN :
         LET res == IF up THEN RedisDecrBy(store[th[t].key], th[t].decrement)
                    ELSE [e |-> store[th[t].key], n |-> 0, err |-> ErrStore]
         IN /\ store' = [store EXCEPT ![th[t].key] = res.e]
            /\ IF res.err # NoErr THEN LimiterReturn(t, 0, res.err)
               ELSE LimiterReturn(t, th[t].newValue, NoErr)
    /\ UNCHANGED <<reporterVars, calls, statsVars, hitLatency, hitCount,
                   RecordStatistics, lastWriter, offered, getsStarted,
                   getsDone>>

(***************************************************************************)
(* Initial state: NewCache (redis.go 301-329) over an empty store, with    *)
(* the goroutines G.  The reporting goroutine waits in its select.         *)
(***************************************************************************)
NewCache(G) ==
    /\ th = [t \in G |->
               IF t = Reporter THEN [Idle EXCEPT !.pc = "rep_select"]
               ELSE Idle]
    /\ statsData = NewStatsData
    /\ cells = <<>>
    /\ mutex = NewMutex
    /\ store = [k \in Keys |-> Absent]
    /\ hitLatency = 0
    /\ hitCount = 0
    /\ RecordStatistics \in BOOLEAN
    /\ calls = 0
    /\ incDone = [m \in Maps |-> [k \in Keys |-> 0]]
    /\ cellsMade = [m \in Maps |-> [k \in Keys |-> 0]]
    /\ lastWriter = [k \in Keys |-> NoThread]
    /\ offered = [k \in Keys |-> {}]
    /\ getsStarted = [k \in Keys |-> 0]
    /\ getsDone = [k \in Keys |-> 0]
    /\ keyHist = [k \in Keys |->
                [calls |-> 0, made |-> 0, sequential |-> TRUE,
                 failed |-> FALSE, sent |-> 0, admitted |-> 0,
                 expired |-> 0]]
    /\ statsTimer = [c |-> FALSE, stopped |-> FALSE, ticks |-> 0]
    /\ emitted = [n |-> 0, last |-> <<>>, late |-> FALSE, stops |-> 0]

\* The callers alone: where no tick is delivered and no stop is signalled
\* the reporting goroutine stays in its select and takes no step.
Init == NewCache(Threads)
\* The callers and the reporting goroutine.
InitReporter == NewCache(Goroutines)

(***************************************************************************)
(* Spec: goroutines using the cache.                                       *)
(***************************************************************************)
Next ==
    \E t \in Threads :
        \/ CallGet(t)
        \/ CallSet(t)
        \/ CallWrap(t)
        \/ CallKeyStatistics(t)
        \/ GetStore(t)
        \/ IncLock(t)
        \/ IncCheck(t)
        \/ IncCreate(t)
        \/ IncAdd(t)
        \/ IncUnlock(t)
        \/ GetLatency(t)
        \/ GetCount(t)
        \/ GetReturn(t)
        \/ WrapCheck(t)
        \/ WrapSet(t)
        \/ SetStore(t)
        \/ ReadLock(t)
        \/ ReadLoad(t)
        \/ ReadUnlock(t)

Spec == Init /\ [][Next]_vars

(***************************************************************************)
(* Claims about the cache, checked under Spec.                             *)
(***************************************************************************)
\* t has returned from a call of op and no other goroutine took a step
\* while the call ran.
Alone(t, o) == th[t].pc = "done" /\ th[t].op = o /\ th[t].solo

\* C2: with statistics recorded, a Get of a key the store does not hold
\* records one miss for the key and no hit: the miss counter of the key is
\* one more than before the call and the hit counter is what it was.
C2_MissRecorded ==
    \A t \in Threads :
        (/\ Alone(t, "Get") /\ RecordStatistics
         /\ ~th[t].st0.present /\ th[t].err = ErrNil) =>
            /\ Count("missStats", th[t].key) = th[t].m0 + 1
            /\ Count("hitStats", th[t].key) = th[t].h0

\* C3: with the store available and statistics recorded, Set(k, v) followed
\* by Get(k), nothing else in between, returns v and records one hit and no
\* miss for k.
C3_SetThenGet ==
    \A t \in Threads :
        (/\ Alone(t, "Get") /\ RecordStatistics /\ th[t].err = NoErr
         /\ th[t].prev.op = "Set" /\ th[t].prev.key = th[t].key
         /\ th[t].prev.err = NoErr) =>
            /\ th[t].ret = th[t].prev.val
            /\ Count("hitStats", th[t].key) = th[t].h0 + 1
            /\ Count("missStats", th[t].key) = th[t].m0

\* C4: Wrap returns the cached value, its producer not called, when Get
\* found a value; otherwise it calls the producer once, writes what it
\* produced under the key and returns it.  So when every value offered for
\* the key is the same v, every Wrap of the key returns v.
C4_WrapReturns ==
    \A t \in Threads :
        (th[t].pc = "done" /\ th[t].op = "Wrap") =>
            /\ th[t].err = NoErr =>
                 th[t].ret = th[t].data /\ th[t].produced = 0
            /\ th[t].err # NoErr =>
                 /\ th[t].produced = 1 /\ th[t].ret = th[t].val
                 /\ (th[t].serr = NoErr /\ lastWriter[th[t].key] = t) =>
                      store[th[t].key].text = th[t].val.text
            /\ offered[th[t].key] = {th[t].val} => th[t].ret = th[t].val

\* C5: Wrap is not single-flight.  Every Wrap that misses calls its own
\* producer and writes its own result; whatever the interleaving, the text
\* a key holds is the text of one of the values offered for it, and it is
\* the text of the value written last.
C5_LastWriteWins ==
    /\ \A k \in Keys :
         store[k].present => \E v \in offered[k] : store[k].text = v.text
    /\ \A t \in Threads :
         (th[t].pc = "done" /\ th[t].op = "Wrap" /\ th[t].err # NoErr) =>
            /\ th[t].produced = 1
            /\ th[t].ret = th[t].val
            /\ (th[t].serr = NoErr /\ lastWriter[th[t].key] = t) =>
                 store[th[t].key].text = th[t].val.text

\* Two Wraps of one key ran concurrently, both missed, both called their
\* producers, which returned different values, and both wrote.
C5_Witness ==
    \E t \in Threads, u \in Threads :
        /\ t # u
        /\ th[t].pc = "done" /\ th[t].op = "Wrap" /\ th[t].produced = 1
        /\ th[u].pc = "done" /\ th[u].op = "Wrap" /\ th[u].produced = 1
        /\ th[t].key = th[u].key /\ th[t].val # th[u].val
        /\ th[t].serr = NoErr /\ th[u].serr = NoErr
        /\ lastWriter[th[t].key] = t
        /\ store[th[t].key].text = th[t].val.text

\* C6: the store never makes Wrap fail.  A Get that failed is a miss: the
\* producer is called and its value returned.  A Set that failed is
\* ignored: the produced value is returned and the key holds what it held.
C6_WrapSwallowsErrors ==
    \A t \in Threads :
        (th[t].pc = "done" /\ th[t].op = "Wrap") =>
            /\ th[t].rerr = NoErr
            /\ th[t].ret # NilIface
            /\ th[t].err # NoErr =>
                 th[t].produced = 1 /\ th[t].ret = th[t].val
            /\ th[t].serr # NoErr =>
                 /\ th[t].produced = 1 /\ th[t].ret = th[t].val
                 /\ th[t].solo => store[th[t].key] = th[t].st0

\* A Wrap whose Get and whose Set both failed returned the produced value,
\* and the key is still absent.
C6_Witness ==
    \E t \in Threads :
        /\ Alone(t, "Wrap")
        /\ th[t].err = ErrStore /\ th[t].serr = ErrStore
        /\ th[t].ret = th[t].val /\ th[t].produced = 1
        /\ ~store[th[t].key].present

\* C7: KeyStatistics fails, with the not-found error, exactly when the hit
\* count and the miss count of the key are both zero: it fails for a key no
\* Get has touched, and once a Get of the key has returned, statistics
\* being recorded, it returns both counts.
C7_KeyStatistics ==
    \A t \in Threads :
        (th[t].pc = "done" /\ th[t].op = "KeyStatistics") =>
            /\ th[t].rerr \in {NoErr, ErrNotFound}
            /\ th[t].rerr = ErrNotFound =>
                 DOMAIN th[t].all = {} /\ th[t].h0 = 0 /\ th[t].m0 = 0
            /\ th[t].rerr = NoErr =>
                 /\ DOMAIN th[t].all = {"hits", "misses"}
                 /\ th[t].all.hits > 0 \/ th[t].all.misses > 0
                 /\ th[t].all.hits <= Count("hitStats", th[t].key)
                 /\ th[t].all.misses <= Count("missStats", th[t].key)
            /\ th[t].solo =>
                 /\ th[t].rerr = ErrNotFound <=>
                      (/\ Count("hitStats", th[t].key) = 0
                       /\ Count("missStats", th[t].key) = 0)
                 /\ th[t].rerr = NoErr =>
                      /\ th[t].all.hits = Count("hitStats", th[t].key)
                      /\ th[t].all.misses = Count("missStats", th[t].key)
            /\ getsStarted[th[t].key] = 0 => th[t].rerr = ErrNotFound
            /\ (th[t].g0 > 0 /\ RecordStatistics) => th[t].rerr = NoErr

\* KeyStatistics, called after a Get of the key had returned, returned the
\* counts of the key.
C7_Witness ==
    \E t \in Threads :
        /\ Alone(t, "KeyStatistics") /\ RecordStatistics
        /\ th[t].g0 = 1 /\ th[t].rerr = NoErr
        /\ th[t].all.hits + th[t].all.misses = 1

\* The cache.Get calls of key k, those inside Wrap included, that have
\* started and not returned.
GetInFlight(k) ==
    {t \in Threads : /\ th[t].key = k
                     /\ \/ th[t].op = "Get" /\ th[t].pc # "done"
                        \/ /\ th[t].op = "Wrap"
                           /\ th[t].pc \notin {"wrap_check", "wrap_set",
                                                "done"}}

\* C15: latency is recorded for hits only.  A Get that has returned an
\* error (the store failed, or does not hold the key) has added nothing to
\* hitLatency nor to hitCount; a Get that has returned a value has added
\* its latency once and 1 to hitCount.
C15_LatencyForHitsOnly ==
    \A t \in Threads :
        (th[t].pc = "done" /\ th[t].op = "Get") =>
            /\ th[t].err # NoErr => th[t].timed = 0 /\ th[t].counted = 0
            /\ th[t].err = NoErr => th[t].timed = 1 /\ th[t].counted = 1

\* C18: with statistics recorded, every Get of a key that has returned, on
\* its own or inside a Wrap, is counted once, as a hit or as a miss: the two
\* counters of the key add up to at least the Gets returned and at most the
\* Gets started, to exactly the Gets made once none is running.  A Set
\* changes neither counter.
C18_EveryGetClassified ==
    RecordStatistics =>
        /\ \A k \in Keys :
             LET sum == Count("hitStats", k) + Count("missStats", k)
             IN /\ getsDone[k] <= sum /\ sum <= getsStarted[k]
                /\ GetInFlight(k) = {} => sum = getsDone[k]
        /\ \A t \in Threads :
             Alone(t, "Set") =>
                /\ Count("hitStats", th[t].key) = th[t].h0
                /\ Count("missStats", th[t].key) = th[t].m0

\* Statistics recorded: a Get and a Wrap of one key have returned, no Get is
\* running, and the two counters of the key add up to 2.
C18_Witness ==
    \E t \in Threads, u \in Threads :
        /\ RecordStatistics /\ t # u
        /\ th[t].op = "Get" /\ th[t].pc = "done"
        /\ th[u].op = "Wrap" /\ th[u].pc = "done" /\ th[u].key = th[t].key
        /\ GetInFlight(th[t].key) = {}
        /\ getsDone[th[t].key] = 2
        /\ Count("hitStats", th[t].key) + Count("missStats", th[t].key) = 2

\* C19: a cache built with RecordStatistics = false never changes a
\* counter, whatever its Get, Set and Wrap calls meet in the store: both
\* maps stay empty, so Statistics() is the empty map, and every
\* KeyStatistics fails with the not-found error.
C19_NothingRecorded ==
    ~RecordStatistics =>
        /\ cells = <<>>
        /\ \A m \in Maps : Snapshot(m) = <<>>
        /\ StatisticsMerge(Snapshot("hitStats"), Snapshot("missStats")) = <<>>
        /\ \A t \in Threads :
             /\ th[t].pc \notin {"inc_lock", "inc_check", "inc_create",
                                  "inc_add", "inc_unlock"}
             /\ (th[t].pc = "done" /\ th[t].op = "KeyStatistics") =>
                  th[t].rerr = ErrNotFound /\ th[t].all = <<>>

\* Nothing recorded: a Get of a key has returned, having gone through the
\* hit branch, and a KeyStatistics of the key called after it failed with
\* not-found.
C19_Witness ==
    \E t \in Threads, u \in Threads :
        /\ ~RecordStatistics /\ t # u
        /\ th[u].op = "Get" /\ th[u].pc = "done" /\ th[u].counted = 1
        /\ th[t].op = "KeyStatistics" /\ th[t].pc = "done"
        /\ th[t].key = th[u].key /\ th[t].g0 = 1
        /\ th[t].rerr = ErrNotFound
        /\ hitCount = 1

(***************************************************************************)
(* SpecReporter: the reporting goroutine, the ticker, goroutines that call *)
(* Get and goroutines that signal stop.                                    *)
(***************************************************************************)
NextReporter ==
    \/ Tick
    \/ ReporterTick
    \/ ReporterPrint
    \/ ReporterStop
    \/ ReporterReturn
    \/ \E t \in Goroutines :
        \/ ReadLock(t)
        \/ ReadLoad(t)
        \/ ReadUnlock(t)
        \/ AverageLoadCount(t)
        \/ AverageLoadTotal(t)
    \/ \E t \in Threads :
        \/ CallStop(t)
        \/ ReporterGet(t)
        \/ GetStore(t)
        \/ IncLock(t)
        \/ IncCheck(t)
        \/ IncCreate(t)
        \/ IncAdd(t)
        \/ IncUnlock(t)
        \/ GetLatency(t)
        \/ GetCount(t)
        \/ GetReturn(t)

SpecReporter == InitReporter /\ [][NextReporter]_vars

\* C11: the reporting goroutine can be told to stop, once or several times.
\* A goroutine that signals stop is not left waiting for a receiver that is
\* gone; once the goroutine has returned the ticker is stopped; and no
\* statistics are printed after a stop signal was taken.
C11_IdempotentStop ==
    /\ \A t \in Threads :
         th[t].pc = "stop_send" =>
            th[Reporter].pc \notin {"rep_stop", "rep_returned"}
    /\ th[Reporter].pc = "rep_returned" => statsTimer.stopped
    /\ ~emitted.late

(***************************************************************************)
(* SpecRateLimiter and SpecCountRateLimiter: goroutines using a rate       *)
(* limiter of a RedisClient on a key that does not expire while they do    *)
(* (a single window).                                                      *)
(***************************************************************************)
\* A RedisClient or a statsMap by itself: no cache records statistics.
InitAlone == Init /\ ~RecordStatistics

NextRateLimiter ==
    \E t \in Threads :
        \/ CallRateLimiter(t)
        \/ RateLimiterSetNX(t)
        \/ RateLimiterDecr(t)
        \/ RateLimiterGet(t)

SpecRateLimiter == InitAlone /\ [][NextRateLimiter]_vars

NextCountRateLimiter ==
    \E t \in Threads :
        \/ CallCountRateLimiter(t)
        \/ CountRateLimiterSetNX(t)
        \/ CountRateLimiterGet(t)
        \/ CountRateLimiterDecrBy(t)

SpecCountRateLimiter == InitAlone /\ [][NextCountRateLimiter]_vars

(***************************************************************************)
(* SpecWindow: goroutines using the two rate limiters on keys that expire. *)
(***************************************************************************)
\* The store drops a key whose TTL (the expiration SetNX was given,
\* redis.go 93-95) has elapsed; this may happen between any two commands.
Expire(k) ==
    /\ store[k].present /\ store[k].ttl
    /\ store' = [store EXCEPT ![k] = Absent]
    /\ keyHist' = [keyHist EXCEPT ![k].expired = @ + 1]
    /\ th' = [u \in DOMAIN th |-> Disturbed(th[u])]
    /\ UNCHANGED <<reporterVars, calls, statsVars, hitLatency, hitCount,
                   RecordStatistics, lastWriter, offered, getsStarted,
                   getsDone>>

\* A goroutine calls a rate limiter on a key that may expire.
WindowRateLimiter(t) == calls < MaxWindowCalls /\ CallRateLimiter(t)
WindowCountRateLimiter(t) == calls < MaxWindowCalls /\ CallCountRateLimiter(t)

NextWindow ==
    \/ \E k \in RateKeys \cup CountKeys : Expire(k)
    \/ \E t \in Threads :
        \/ WindowRateLimiter(t)
        \/ RateLimiterSetNX(t)
        \/ RateLimiterDecr(t)
        \/ RateLimiterGet(t)
        \/ WindowCountRateLimiter(t)
        \/ CountRateLimiterSetNX(t)
        \/ CountRateLimiterGet(t)
        \/ CountRateLimiterDecrBy(t)

SpecWindow == InitAlone /\ [][NextWindow]_vars

(***************************************************************************)
(* Claims about the rate limiters.                                         *)
(***************************************************************************)
\* The integer key k holds in the store.
Stored(k) == Atoi(store[k].text).n

\* C8 (under SpecCountRateLimiter): a CountRateLimiter call that no other
\* call interleaves with returns current - decrement, current being what
\* the key held (the initial budget for an absent key); a result >= 0 is
\* what the key then holds, and with a result < 0 the key still holds
\* current.  So a key used by sequential calls never holds less than 0.
C8_BoundedDecrement ==
    /\ \A t \in Threads :
         (Alone(t, "CountRateLimiter") /\ th[t].rerr = NoErr) =>
            LET current == IF th[t].st0.present THEN Atoi(th[t].st0.text).n
                           ELSE th[t].value
            IN /\ th[t].n = current - th[t].decrement
               /\ store[th[t].key].present
               /\ th[t].n >= 0 => Stored(th[t].key) = th[t].n
               /\ th[t].n < 0 => Stored(th[t].key) = current
    /\ \A k \in CountKeys :
         (keyHist[k].sequential /\ store[k].present) => Stored(k) >= 0

\* Budget 10, decrement 4, three sequential calls: the third returned -2
\* and the key holds 2.
C8_Witness ==
    \E t \in Threads :
        /\ Alone(t, "CountRateLimiter") /\ th[t].rerr = NoErr
        /\ keyHist[th[t].key].made = 10 /\ keyHist[th[t].key].calls = 3
        /\ keyHist[th[t].key].sequential /\ ~keyHist[th[t].key].failed
        /\ th[t].decrement = 4 /\ th[t].st0.text = <<"2">>
        /\ th[t].n = -2
        /\ store[th[t].key].text = <<"2">>

\* C9 (under SpecRateLimiter): of sequential RateLimiter calls on a fresh
\* key, none failing, the k-th returns B - k, B being the budget the key
\* was created with; nothing stops the result at zero.
C9_FixedWindow ==
    \A t \in Threads :
        (/\ th[t].pc = "done" /\ th[t].op = "RateLimiter"
         /\ th[t].rerr = NoErr
         /\ keyHist[th[t].key].sequential /\ ~keyHist[th[t].key].failed) =>
            th[t].n = keyHist[th[t].key].made - th[t].nth

\* Budget 3: the fifth sequential call returned -2.
C9_Witness ==
    \E t \in Threads :
        /\ th[t].pc = "done" /\ th[t].op = "RateLimiter"
        /\ th[t].rerr = NoErr
        /\ keyHist[th[t].key].sequential /\ ~keyHist[th[t].key].failed
        /\ keyHist[th[t].key].made = 3 /\ th[t].nth = 5
        /\ th[t].n = -2
        /\ store[th[t].key].text = <<"-", "2">>

\* C14 (under SpecRateLimiter): the create step of RateLimiter never
\* overwrites and every call takes exactly 1.  Whatever the interleaving of
\* the calls on a key, the key holds the budget it was created with less
\* the number of calls whose pipeline the store has run to its end: once
\* all n calls have returned, none having failed to reach the store, it
\* holds B - n.
C14_OneDecrementPerCall ==
    \A k \in RateKeys :
        LET decring == {t \in Threads : th[t].op = "RateLimiter"
                                         /\ th[t].key = k
                                         /\ th[t].pc = "rl_decr"}
        IN /\ store[k].present =>
                /\ keyHist[k].made \in RateBudgets
                /\ Stored(k) = keyHist[k].made
                                - (keyHist[k].sent - Cardinality(decring))
           /\ (LimiterInFlight(k) = {} /\ keyHist[k].sent = keyHist[k].calls
               /\ keyHist[k].calls > 0) =>
                Stored(k) = keyHist[k].made - keyHist[k].calls

\* Two calls with different budgets ran their pipelines interleaved (the
\* second SetNX found the key), five calls were made in all, and the key
\* holds the first budget less 5.
C14_Witness ==
    \E k \in RateKeys :
        /\ LimiterInFlight(k) = {} /\ ~keyHist[k].sequential
        /\ keyHist[k].calls = 5 /\ keyHist[k].sent = 5
        /\ keyHist[k].made = 3
        /\ \E t \in Threads : th[t].op = "RateLimiter" /\ th[t].value = 5
        /\ store[k].text = <<"-", "2">>

\* C17 (under SpecRateLimiter): RateLimiter never over-admits.  A call that
\* returns without error returns no more than the value its own Decr left,
\* which is less than B, the budget the key was created with; so of the
\* calls on a key at most B return a value >= 0.
C17_NoOverAdmission ==
    /\ \A t \in Threads :
         (th[t].pc = "done" /\ th[t].op = "RateLimiter"
          /\ th[t].rerr = NoErr) =>
            /\ th[t].n <= th[t].newValue
            /\ th[t].newValue < keyHist[th[t].key].made
    /\ \A k \in RateKeys : keyHist[k].admitted <= keyHist[k].made

\* Budget 3, calls interleaved: three calls returned a value >= 0, a
\* fourth returned less than 0, and one call returned less than its own
\* Decr had left.
C17_Witness ==
    \E k \in RateKeys, t \in Threads :
        /\ keyHist[k].made = 3 /\ keyHist[k].admitted = 3
        /\ ~keyHist[k].sequential /\ keyHist[k].calls >= 4
        /\ th[t].pc = "done" /\ th[t].op = "RateLimiter" /\ th[t].key = k
        /\ th[t].rerr = NoErr /\ th[t].n < 0

C20_EveryKeyExpires ==
    \A k \in RateKeys \cup CountKeys : store[k].present => store[k].ttl

NextStats ==
    \E t \in Threads :
        \/ CallStats(t)
        \/ IncLock(t)
        \/ IncCheck(t)
        \/ IncCreate(t)
        \/ IncAdd(t)
        \/ IncUnlock(t)
        \/ ReadLock(t)
        \/ ReadLoad(t)
        \/ ReadUnlock(t)

SpecStats == InitAlone /\ [][NextStats]_vars

\* C1: once every increment(key) that was started has returned, the key
\* holds exactly the number of increments made, in the single cell ever
\* created for it; and a get that has loaded the key under the read lock
\* has read exactly the number of completed increments.
C1_NoLostIncrement ==
    /\ \A m \in Maps, k \in Keys :
         IncInFlight(m, k) = {} =>
           /\ Count(m, k) = incDone[m][k]
           /\ cellsMade[m][k] = (IF incDone[m][k] > 0 THEN 1 ELSE 0)
    /\ \A m \in Maps, k \in Keys : cellsMade[m][k] <= 1
    /\ \A t \in Threads :
         (th[t].op = "get" /\ th[t].pc \in {"read_unlock", "done"}) =>
           th[t].n <= incDone[th[t].sm][th[t].key]
    /\ \A t \in Threads :
         (th[t].op = "get" /\ th[t].pc = "read_unlock") =>
           th[t].n = incDone[th[t].sm][th[t].key]

\* Two increments of one unseen key were in flight together, both have
\* returned, one cell was made, the key counts 2, and a get has read 2.
C1_Witness ==
    \E k \in Keys, t \in Threads, u \in Threads :
        /\ t # u
        /\ keyHist[k].calls = 2 /\ ~keyHist[k].sequential
        /\ incDone["hitStats"][k] = 2 /\ cellsMade["hitStats"][k] = 1
        /\ IncInFlight("hitStats", k) = {}
        /\ th[u].op = "increment" /\ th[u].pc = "done"
        /\ th[u].sm = "hitStats" /\ th[u].key = k
        /\ th[t].op = "get" /\ th[t].pc = "done"
        /\ th[t].sm = "hitStats" /\ th[t].key = k
        /\ th[t].n = 2

\* C12 (under SpecStats): in every step, every counter of every statsMap
\* keeps or raises its value, every key a map holds stays in the map with
\* the cell it has, and no cell is lowered or freed.
C12_Monotone ==
    [][/\ \A m \in Maps, k \in Keys :
            /\ Count(m, k)' >= Count(m, k)
            /\ statsData[m][k] # 0 => statsData'[m][k] = statsData[m][k]
       /\ Len(cells') >= Len(cells)
       /\ \A a \in 1..Len(cells) : cells'[a] >= cells[a]]_vars

\* A map holds two keys, one counted twice and then the other once.
C12_Witness ==
    \E m \in Maps :
        /\ Count(m, "k1") = 2 /\ Count(m, "k2") = 1
        /\ incDone[m]["k1"] = 2 /\ incDone[m]["k2"] = 1
        /\ statsData[m]["k1"] < statsData[m]["k2"]

\* C13 (under SpecStats): an increment of a key the map already holds does
\* not take the exclusive lock: a goroutine that found the key in the map
\* does not hold the lock while it adds, and a goroutine about to increment
\* a key the map holds is not kept waiting by readers.
C13_LockDiscipline ==
    \A t \in Threads :
        /\ (th[t].pc \in {"inc_add", "inc_unlock"} /\ th[t].exists) =>
              mutex[th[t].sm].w # t
        /\ (/\ th[t].pc = "inc_lock"
            /\ statsData[th[t].sm][th[t].key] # 0
            /\ mutex[th[t].sm].w = NoThread) => CanLock(th[t].sm)
====
